---- MODULE Spec2Model ----
(***************************************************************************)
(* Pop Mart BUYNOW Link Builder (src/src/PopMartWebBuyNow.tsx).            *)
(*                                                                         *)
(* A JavaScript string is modelled as a sequence of tokens, each token an  *)
(* indivisible chunk of characters ("http://", "products", ",", "\n" ...). *)
(* No token is the concatenation of other tokens, so string equality is    *)
(* sequence equality.  JavaScript null is the value null below, which is   *)
(* no string of tokens.                                                    *)
(***************************************************************************)
EXTENDS Integers, Sequences, FiniteSets, TLC

VARIABLES rawText, items, selectedIndex, variant, qty, generated,
          uploads, copies, status, event, arg, ret

vars == <<rawText, items, selectedIndex, variant, qty, generated,
          uploads, copies, status, event, arg, ret>>

\* rawText .. generated are the React state of App.  uploads holds the
\* texts of the file reads in flight, copies counts the clipboard writes in
\* flight, status is the last alert shown.  event is a history variable: the
\* handler, effect or continuation that ran last.  arg and ret are the input
\* and the result of a function checked on its own (SpecParse, SpecNewline,
\* SpecLink).
ui == <<rawText, items, selectedIndex, variant, qty, generated>>

-----------------------------------------------------------------------------
(* Strings *)

LF == "\n"
CR == "\r"
SP == " "
COMMA == ","
SLASH == "/"

null == <<"#null">>

\* String.prototype.toLowerCase, token by token.
LowerTok(t) ==
    CASE t = "HTTP://" -> "http://"
      [] t = "HTTPS://" -> "https://"
      [] t = "Products" -> "products"
      [] t = "PRODUCTS" -> "products"
      [] t = "NULL" -> "null"
      [] t = "Null" -> "null"
      [] t = "Slug" -> "slug"
      [] t = "THE-MONSTERS" -> "the-monsters"
      [] t = "X" -> "x"
      [] OTHER -> t

toLowerCase(s) == [i \in 1..Len(s) |-> LowerTok(s[i])]

\* What \s matches, and what trim() strips.
IsSpace(t) == t \in {SP, CR, LF}

RECURSIVE trimStart(_)
trimStart(s) ==
    IF s # <<>> /\ IsSpace(Head(s)) THEN trimStart(Tail(s)) ELSE s

RECURSIVE trimEnd(_)
trimEnd(s) ==
    IF s # <<>> /\ IsSpace(s[Len(s)]) THEN trimEnd(SubSeq(s, 1, Len(s) - 1)) ELSE s

trim(s) == trimEnd(trimStart(s))

\* v.replace(/\s+/g, "")
RemoveSpaces(s) == SelectSeq(s, LAMBDA t : ~IsSpace(t))

\* text.split(/\r?\n/): a "\n" ends the piece, and takes one "\r" right
\* before it with it.
RECURSIVE SplitLinesFrom(_, _, _, _)
SplitLinesFrom(text, i, cur, acc) ==
    IF i > Len(text) THEN Append(acc, cur)
    ELSE IF text[i] = LF
         THEN SplitLinesFrom(text, i + 1, <<>>,
                  Append(acc, IF cur # <<>> /\ cur[Len(cur)] = CR
                              THEN SubSeq(cur, 1, Len(cur) - 1)
                              ELSE cur))
         ELSE SplitLinesFrom(text, i + 1, Append(cur, text[i]), acc)

SplitLines(text) == SplitLinesFrom(text, 1, <<>>, <<>>)

\* line.split(",")
RECURSIVE SplitCommaFrom(_, _, _, _)
SplitCommaFrom(line, i, cur, acc) ==
    IF i > Len(line) THEN Append(acc, cur)
    ELSE IF line[i] = COMMA
         THEN SplitCommaFrom(line, i + 1, <<>>, Append(acc, cur))
         ELSE SplitCommaFrom(line, i + 1, Append(cur, line[i]), acc)

SplitComma(line) == SplitCommaFrom(line, 1, <<>>, <<>>)

MapTrim(ss) == [i \in 1..Len(ss) |-> trim(ss[i])]

-----------------------------------------------------------------------------
(* Row parser *)

\* norm: a SKU column that is empty or "null" is null.
norm(v) ==
    IF v = <<>> THEN null
    ELSE LET s == RemoveSpaces(v)
         IN IF Len(s) = 0 \/ toLowerCase(s) = <<"null">> THEN null ELSE s

\* /^https?:\/\//i.test(url)
UrlSanity(url) == url # <<>> /\ LowerTok(url[1]) \in {"http://", "https://"}

\* parts[k] ?? "" (k counted from 0)
PartOr(parts, k) == IF k + 1 <= Len(parts) THEN parts[k + 1] ELSE <<>>

\* The body of the for loop of parseText, from line i (counted from 0) on.
RECURSIVE parseRows(_, _, _)
parseRows(lines, i, rows) ==
    IF ~(i < Len(lines)) THEN rows
    ELSE LET line == lines[i + 1]
             parts == MapTrim(SplitComma(line))
         IN IF Len(parts) < 2 THEN parseRows(lines, i + 1, rows)
            ELSE LET name == PartOr(parts, 0)
                     url == PartOr(parts, 1)
                     skuSingle == norm(PartOr(parts, 2))
                     skuSet == norm(PartOr(parts, 3))
                 IN IF ~UrlSanity(url) THEN parseRows(lines, i + 1, rows)
                    ELSE parseRows(lines, i + 1,
                             Append(rows, [name |-> name, url |-> url,
                                           skuSingle |-> skuSingle,
                                           skuSet |-> skuSet]))

\* parseText with the loop started at the header line.
parseText_HeaderKept(text) ==
    LET lines == SelectSeq(MapTrim(SplitLines(text)), LAMBDA l : Len(l) > 0)
    IN IF Len(lines) <= 1 THEN <<>> ELSE parseRows(lines, 0, <<>>)

parseText(text) ==
    LET lines == SelectSeq(MapTrim(SplitLines(text)), LAMBDA l : Len(l) > 0)
    IN IF Len(lines) <= 1 THEN <<>> ELSE parseRows(lines, 1, <<>>)

-----------------------------------------------------------------------------
(* Numbers: a JavaScript number is an integer or NaN. *)

Num(n) == [nan |-> FALSE, val |-> n]
NaN == [nan |-> TRUE, val |-> 0]

\* a < b and a > b of JavaScript: false when either side is NaN.
Lt(a, b) == ~a.nan /\ ~b.nan /\ a.val < b.val
Gt(a, b) == ~a.nan /\ ~b.nan /\ a.val > b.val

\* String(count)
NumToString(x) == IF x.nan THEN "NaN" ELSE ToString(x.val)

Digits == {"0", "1", "2", "3", "4", "5", "6", "7", "8", "9"}

DigitVal(c) ==
    CASE c = "0" -> 0 [] c = "1" -> 1 [] c = "2" -> 2 [] c = "3" -> 3
      [] c = "4" -> 4 [] c = "5" -> 5 [] c = "6" -> 6 [] c = "7" -> 7
      [] c = "8" -> 8 [] c = "9" -> 9

\* The longest prefix of digits of s, read in base 10 on top of acc.
RECURSIVE DigitPrefix(_, _, _)
DigitPrefix(s, n, acc) ==
    IF s # <<>> /\ Head(s) \in Digits
    THEN DigitPrefix(Tail(s), n + 1, 10 * acc + DigitVal(Head(s)))
    ELSE <<n, acc>>

\* parseInt(str, 10) on a string of one-character tokens: white space is
\* skipped, a sign is read, then the longest run of digits; NaN if there is
\* no digit there.
parseInt(str) ==
    LET s == trimStart(str)
        neg == s # <<>> /\ Head(s) = "-"
        body == IF s # <<>> /\ Head(s) \in {"-", "+"} THEN Tail(s) ELSE s
        d == DigitPrefix(body, 0, 0)
    IN IF d[1] = 0 THEN NaN ELSE Num(IF neg THEN 0 - d[2] ELSE d[2])

\* s is one or more digits.
AllDigits(s) == s # <<>> /\ \A i \in 1..Len(s) : s[i] \in Digits

\* The value an <input type="number"> hands to onChange: what was typed if
\* it is a valid floating-point number (an optional "-", then digits, or
\* digits "." digits, or "." digits), else the empty string.
IsValidNumber(s) ==
    LET body == IF s # <<>> /\ Head(s) = "-" THEN Tail(s) ELSE s
    IN \/ AllDigits(body)
       \/ \E k \in 1..Len(body) :
            /\ body[k] = "."
            /\ k = 1 \/ AllDigits(SubSeq(body, 1, k - 1))
            /\ AllDigits(SubSeq(body, k + 1, Len(body)))

NumberInputValue(typed) == IF IsValidNumber(typed) THEN typed ELSE <<>>

-----------------------------------------------------------------------------
(* Link builder *)

Schemes == {"http://", "https://"}

RECURSIVE DropSlashes(_)
DropSlashes(s) == IF s # <<>> /\ Head(s) = SLASH THEN DropSlashes(Tail(s)) ELSE s

RECURSIVE UpToSlash(_)
UpToSlash(s) ==
    IF s = <<>> \/ Head(s) = SLASH THEN <<>> ELSE <<Head(s)>> \o UpToSlash(Tail(s))

\* new URL(productUrl), for a string of scheme, host, "/", word and space
\* tokens: leading and trailing spaces and all newlines are removed; the
\* string must open with http:// or https:// (in any case) and name a
\* non-empty host without spaces; the path keeps its segments, a space in
\* it written %20, and is "/" when nothing follows the host.
NewURL(productUrl) ==
    LET s == SelectSeq(trim(productUrl), LAMBDA t : t \notin {CR, LF})
    IN IF s = <<>> \/ LowerTok(s[1]) \notin Schemes
       THEN [ok |-> FALSE, pathname |-> <<>>]
       ELSE LET rest == DropSlashes(Tail(s))
                host == UpToSlash(rest)
                path == SubSeq(rest, Len(host) + 1, Len(rest))
            IN IF host = <<>> \/ \E i \in 1..Len(host) : host[i] = SP
               THEN [ok |-> FALSE, pathname |-> <<>>]
               ELSE [ok |-> TRUE,
                     pathname |-> IF path = <<>> THEN <<SLASH>>
                                  ELSE [i \in 1..Len(path) |->
                                          IF path[i] = SP THEN "%20" ELSE path[i]]]

\* pathname.split("/")
RECURSIVE SplitSlashFrom(_, _, _, _)
SplitSlashFrom(p, i, cur, acc) ==
    IF i > Len(p) THEN Append(acc, cur)
    ELSE IF p[i] = SLASH
         THEN SplitSlashFrom(p, i + 1, <<>>, Append(acc, cur))
         ELSE SplitSlashFrom(p, i + 1, Append(cur, p[i]), acc)

\* u.pathname.split("/").filter(Boolean)
PathParts(pathname) ==
    SelectSeq(SplitSlashFrom(pathname, 1, <<>>, <<>>), LAMBDA x : x # <<>>)

\* parts.findIndex(p => p.toLowerCase() === "products"), counted from 0,
\* -1 when there is none.
RECURSIVE findIndexFrom(_, _)
findIndexFrom(parts, i) ==
    IF i >= Len(parts) THEN 0 - 1
    ELSE IF toLowerCase(parts[i + 1]) = <<"products">> THEN i
         ELSE findIndexFrom(parts, i + 1)

\* findIndex with the comparison made case-sensitive.
RECURSIVE findIndexExactFrom(_, _)
findIndexExactFrom(parts, i) ==
    IF i >= Len(parts) THEN 0 - 1
    ELSE IF parts[i + 1] = <<"products">> THEN i
         ELSE findIndexExactFrom(parts, i + 1)

findProducts_CaseSensitive(parts) == findIndexExactFrom(parts, 0)

findProducts(parts) == findIndexFrom(parts, 0)

\* URLSearchParams percent-encoding, token by token.
EncodeTok(t) ==
    CASE t = "%20" -> "%2520"
      [] t = SP -> "+"
      [] t = SLASH -> "%2F"
      [] t = COMMA -> "%2C"
      [] t = "http://" -> "http%3A%2F%2F"
      [] t = "https://" -> "https%3A%2F%2F"
      [] t = "HTTP://" -> "HTTP%3A%2F%2F"
      [] t = "HTTPS://" -> "HTTPS%3A%2F%2F"
      [] OTHER -> t

Encode(s) == [i \in 1..Len(s) |-> EncodeTok(s[i])]

LinkBase == "https://www.popmart.com/vn/order-confirmation?"
ErrInvalidUrl == "URL sản phẩm không hợp lệ"
ErrMissingSpuId == "Không tìm thấy spuId trong URL sản phẩm"

Throw(msg) == [ok |-> FALSE, val |-> <<msg>>]
Return(v) == [ok |-> TRUE, val |-> v]

\* buildBuyNowLink: Return(link) or Throw(message).
buildBuyNowLink(productUrl, skuId, count) ==
    LET u == NewURL(productUrl)
    IN IF ~u.ok THEN Throw(ErrInvalidUrl)
       ELSE LET parts == PathParts(u.pathname)
                idx == findProducts(parts)
                spuId == IF idx >= 0 /\ Len(parts) > idx + 1
                         THEN parts[idx + 2] ELSE <<>>
                slug == IF Len(parts) > 0 THEN parts[Len(parts)] ELSE <<>>
                spuTitle == toLowerCase(slug)
            IN IF spuId = <<>> THEN Throw(ErrMissingSpuId)
               ELSE Return(<<LinkBase, "spuId=">> \o Encode(spuId)
                           \o <<"&skuId=">> \o Encode(skuId)
                           \o <<"&count=", NumToString(count)>>
                           \o <<"&spuTitle=">> \o Encode(spuTitle))

-----------------------------------------------------------------------------
(* Bounds and the inputs drawn within them *)

\* Longest text typed into the quantity field.
MaxTyped == 2
\* Most file reads, and most clipboard writes, in flight at once.
MaxPending == 1
\* Longest text handed to parseText token by token.
MaxTextLen == 6
\* Most tokens after the scheme of a URL handed to buildBuyNowLink.
MaxUrlLen == 5
\* Most rows of a text joined by one newline convention.
MaxRows == 3

\* All strings over alphabet A of length at most n.
StringsUpTo(A, n) == UNION {[1..k -> A] : k \in 0..n}

TypedChars == {"-", ".", "9"}
TypedStrings == StringsUpTo(TypedChars, MaxTyped)

\* s1 sep s2 sep ... sn
RECURSIVE Join(_, _)
Join(rows, sep) ==
    IF rows = <<>> THEN <<>>
    ELSE IF Len(rows) = 1 THEN rows[1]
    ELSE rows[1] \o sep \o Join(Tail(rows), sep)

Header == <<"Name", COMMA, "URL", COMMA, "skuid_single", COMMA, "skuid_set">>
\* both SKUs; /vn/products/{spuId}/{slug}
RowBoth == <<"Labubu", COMMA, SP, "https://", "www.popmart.com", SLASH, "vn", SLASH,
             "products", SLASH, "6890", SLASH, "THE-MONSTERS", COMMA, SP, "10528",
             COMMA, SP, "10529">>
\* set SKU only; the path ends at /Products/{spuId}
RowSetOnly == <<"Set", COMMA, "HTTPS://", "www.popmart.com", SLASH, "Products", SLASH,
                "7000", COMMA, "NULL", COMMA, "10530">>
\* no SKU at all
RowNoSku == <<"Bare", COMMA, "https://", "www.popmart.com", SLASH, "products", SLASH,
              "1", COMMA, SP, COMMA, "null">>
\* single SKU only; no products segment in the path
RowNoId == <<"NoId", COMMA, "http://", "www.popmart.com", SLASH, "vn", SLASH, "Slug",
             COMMA, "10531">>
\* set SKU only; a URL that passes the parser's check and is no URL
RowBadUrl == <<"Bad", COMMA, "http://", COMMA, COMMA, "10532">>
\* one column only: dropped by the parser
RowJunk == <<"junk">>

\* The texts Data.txt, the textarea and an uploaded file hold here.
Texts ==
    { <<>>,
      Header,
      Join(<<Header, RowBoth, RowSetOnly>>, <<LF>>),
      Join(<<Header, RowSetOnly, RowJunk, RowNoId>>, <<CR, LF>>),
      Join(<<Header, RowNoSku, RowBadUrl>>, <<LF>>) }

-----------------------------------------------------------------------------
(* Selection and quantity policy *)

NoVariant == "null"
Variants == {"single", "set"}

MaxSingle == 28
MaxSet == 2
MaxNone == 1

ErrPrefix == "Lỗi: "
ErrNoEntry == "Chưa chọn sản phẩm"
ErrNoVariant == "Chưa chọn phân loại"
ErrMissingSku == "Phân loại này không có skuId trong danh sách"

\* const current = useMemo(...): the chosen entry, or null.
HasCurrent(its, idx) == ~(idx < 0 \/ idx >= Len(its))
Current(its, idx) == its[idx + 1]

\* const maxQty = useMemo(...)
maxQty(v) ==
    IF v = "single" THEN MaxSingle
    ELSE IF v = "set" THEN MaxSet
    ELSE MaxNone

clampQty(value, max) ==
    IF Lt(value, Num(1)) THEN Num(1)
    ELSE IF Gt(value, Num(max)) THEN Num(max)
    ELSE value

\* The default variant with the set SKU looked at first.
DefaultVariant_SetFirst(it) ==
    IF it.skuSet # null /\ it.skuSet # <<>> THEN "set"
    ELSE IF it.skuSingle # null /\ it.skuSingle # <<>> THEN "single"
    ELSE "null"

\* it.skuSingle ? "single" : it.skuSet ? "set" : null
DefaultVariant(it) ==
    IF it.skuSingle # null /\ it.skuSingle # <<>> THEN "single"
    ELSE IF it.skuSet # null /\ it.skuSet # <<>> THEN "set"
    ELSE NoVariant

\* variant === "single" ? current.skuSingle : current.skuSet
SkuOf(it, v) == IF v = "single" THEN it.skuSingle ELSE it.skuSet

\* generated.startsWith("Lỗi:")
IsError(g) == g # <<>> /\ Head(g) = ErrPrefix

\* The part of the three loaders that follows parseText: the list and the
\* chosen index are always set; variant, quantity and (when alsoClear is
\* false) the outcome only if the list is non-empty.
Replaced(parsed, alsoClear) ==
    /\ items' = parsed
    /\ selectedIndex' = IF Len(parsed) > 0 THEN 0 ELSE 0 - 1
    /\ IF Len(parsed) > 0
       THEN /\ variant' = DefaultVariant(parsed[1])
            /\ qty' = Num(1)
            /\ generated' = <<>>
       ELSE /\ UNCHANGED <<variant, qty>>
            /\ generated' = IF alsoClear THEN <<>> ELSE generated

-----------------------------------------------------------------------------
(* The component: Init is App as constructed, before its mount effect.     *)
(* The textarea, the load button and the file input that call setRawText,  *)
(* handleLoad and onUploadFile are commented out of the JSX (lines 230-245 *)
(* and 249-271); the handlers are modelled as the controls call them.      *)

Init ==
    /\ rawText = <<>>
    /\ items = <<>>
    /\ selectedIndex = 0 - 1
    /\ variant = NoVariant
    /\ qty = Num(1)
    /\ generated = <<>>
    /\ uploads = <<>>
    /\ copies = 0
    /\ status = "none"
    /\ event = "construct"
    /\ arg = <<>>
    /\ ret = <<>>

Mounted == event # "construct"

\* useEffect(() => {...}, []): the bundled Data.txt is loaded once.
InitialLoad(defaultData) ==
    /\ event = "construct"
    /\ rawText' = defaultData
    /\ Replaced(parseText(defaultData), TRUE)
    /\ event' = "initialLoad"
    /\ UNCHANGED <<uploads, copies, status, arg, ret>>

\* <textarea onChange={(e) => setRawText(e.target.value)}>
setRawText(text) ==
    /\ Mounted
    /\ rawText' = text
    /\ event' = "setRawText"
    /\ UNCHANGED <<items, selectedIndex, variant, qty, generated,
                   uploads, copies, status, arg, ret>>

handleLoad ==
    /\ Mounted
    /\ Replaced(parseText(rawText), FALSE)
    /\ event' = "handleLoad"
    /\ UNCHANGED <<rawText, uploads, copies, status, arg, ret>>

\* onUploadFile up to its await: file.text() is in flight.
onUploadFile(text) ==
    /\ Mounted
    /\ Len(uploads) < MaxPending
    /\ uploads' = Append(uploads, text)
    /\ event' = "onUploadFile"
    /\ UNCHANGED <<rawText, items, selectedIndex, variant, qty, generated,
                   copies, status, arg, ret>>

RemoveAt(q, i) == SubSeq(q, 1, i - 1) \o SubSeq(q, i + 1, Len(q))

\* file.text() of the i-th read in flight resolves: the rest of onUploadFile.
UploadResolved(i) ==
    /\ i \in 1..Len(uploads)
    /\ rawText' = uploads[i]
    /\ Replaced(parseText(uploads[i]), FALSE)
    /\ uploads' = RemoveAt(uploads, i)
    /\ event' = "uploadResolved"
    /\ UNCHANGED <<copies, status, arg, ret>>

\* file.text() rejects: onUploadFile ends there.
UploadRejected(i) ==
    /\ i \in 1..Len(uploads)
    /\ uploads' = RemoveAt(uploads, i)
    /\ event' = "uploadRejected"
    /\ UNCHANGED <<rawText, items, selectedIndex, variant, qty, generated,
                   copies, status, arg, ret>>

\* <select onChange>: idx is the value of one of the options, -1 for
\* "-- Chưa chọn --", and not the option shown as selected.
selectProduct(idx) ==
    /\ Mounted
    /\ idx \in (0 - 1)..(Len(items) - 1)
    /\ idx # selectedIndex
    /\ selectedIndex' = idx
    /\ IF idx >= 0
       THEN /\ variant' = DefaultVariant(items[idx + 1])
            /\ qty' = Num(1)
            /\ generated' = <<>>
       ELSE UNCHANGED <<variant, qty, generated>>
    /\ event' = "selectProduct"
    /\ UNCHANGED <<rawText, items, uploads, copies, status, arg, ret>>

\* Radios that are enabled whenever an entry is chosen.
RadioEnabled_AnyEntry(v) == ~(selectedIndex < 0 \/ selectedIndex >= Len(items))

\* disabled={!current?.skuSingle} and disabled={!current?.skuSet}
RadioEnabled(v) ==
    /\ HasCurrent(items, selectedIndex)
    /\ SkuOf(Current(items, selectedIndex), v) # null
    /\ SkuOf(Current(items, selectedIndex), v) # <<>>

\* A radio's onChange: it fires on a radio that is enabled and not checked.
handleVariantChange(v) ==
    /\ Mounted
    /\ RadioEnabled(v)
    /\ variant # v
    /\ variant' = v
    /\ qty' = Num(1)
    /\ generated' = <<>>
    /\ event' = "handleVariantChange"
    /\ UNCHANGED <<rawText, items, selectedIndex, uploads, copies, status, arg, ret>>

\* e.target.value, for every text typed.
TypedValues == {NumberInputValue(typed) : typed \in TypedStrings}

\* setQty(clampQty(parseInt(e.target.value || "1", 10)))
qtyChange(value) ==
    /\ Mounted
    /\ qty' = clampQty(parseInt(IF value = <<>> THEN <<"1">> ELSE value),
                       maxQty(variant))
    /\ event' = "qtyChange"
    /\ UNCHANGED <<rawText, items, selectedIndex, variant, generated,
                   uploads, copies, status, arg, ret>>

\* handleGenerate's try block with the variant looked at before the entry.
Generate_VariantFirst(its, idx, v, q) ==
    IF v = NoVariant THEN <<q, Throw(ErrNoVariant)>>
    ELSE IF ~HasCurrent(its, idx) THEN <<q, Throw(ErrNoEntry)>>
    ELSE LET skuId == SkuOf(Current(its, idx), v)
         IN IF skuId = null \/ skuId = <<>> THEN <<q, Throw(ErrMissingSku)>>
            ELSE LET c == clampQty(q, maxQty(v))
                 IN <<c, buildBuyNowLink(Current(its, idx).url, skuId, c)>>

\* The outcome of handleGenerate's try block: <<quantity, Return or Throw>>.
Generate(its, idx, v, q) ==
    IF ~HasCurrent(its, idx) THEN <<q, Throw(ErrNoEntry)>>
    ELSE IF v = NoVariant THEN <<q, Throw(ErrNoVariant)>>
    ELSE LET skuId == SkuOf(Current(its, idx), v)
         IN IF skuId = null \/ skuId = <<>> THEN <<q, Throw(ErrMissingSku)>>
            ELSE LET c == clampQty(q, maxQty(v))
                 IN <<c, buildBuyNowLink(Current(its, idx).url, skuId, c)>>

handleGenerate ==
    /\ Mounted
    /\ LET r == Generate(items, selectedIndex, variant, qty)
       IN /\ qty' = r[1]
          /\ generated' = IF r[2].ok THEN r[2].val ELSE <<ErrPrefix>> \o r[2].val
    /\ event' = "handleGenerate"
    /\ UNCHANGED <<rawText, items, selectedIndex, variant,
                   uploads, copies, status, arg, ret>>

\* disabled={!generated || generated.startsWith("Lỗi:")}
CopyEnabled == generated # <<>> /\ ~IsError(generated)

\* copyToClipboard up to its await: writeText(generated) is in flight.
copyToClipboard ==
    /\ Mounted
    /\ CopyEnabled
    /\ copies < MaxPending
    /\ copies' = copies + 1
    /\ event' = "copyToClipboard"
    /\ UNCHANGED <<rawText, items, selectedIndex, variant, qty, generated,
                   uploads, status, arg, ret>>

\* A clipboard completion that also clears the outcome.
CopyResolved_ClearsOutcome ==
    /\ copies > 0
    /\ copies' = copies - 1
    /\ status' = "copied"
    /\ generated' = <<>>
    /\ event' = "copyResolved"
    /\ UNCHANGED <<rawText, items, selectedIndex, variant, qty, uploads, arg, ret>>

\* writeText resolves: alert("Đã copy link vào clipboard")
CopyResolved ==
    /\ copies > 0
    /\ copies' = copies - 1
    /\ status' = "copied"
    /\ event' = "copyResolved"
    /\ UNCHANGED <<rawText, items, selectedIndex, variant, qty, generated,
                   uploads, arg, ret>>

\* writeText rejects: alert("Không thể copy. Hãy copy thủ công ở dưới.")
CopyRejected ==
    /\ copies > 0
    /\ copies' = copies - 1
    /\ status' = "copyFailed"
    /\ event' = "copyRejected"
    /\ UNCHANGED <<rawText, items, selectedIndex, variant, qty, generated,
                   uploads, arg, ret>>

\* The files picked for upload.
Files == {Header, Join(<<Header, RowSetOnly, RowJunk, RowNoId>>, <<CR, LF>>)}

Next ==
    \/ \E t \in Texts : InitialLoad(t)
    \/ \E t \in Texts : setRawText(t)
    \/ handleLoad
    \/ \E t \in Files : onUploadFile(t)
    \/ \E i \in 1..MaxPending : UploadResolved(i)
    \/ \E i \in 1..MaxPending : UploadRejected(i)
    \/ \E idx \in (0 - 1)..(Len(items) - 1) : selectProduct(idx)
    \/ \E v \in Variants : handleVariantChange(v)
    \/ \E value \in TypedValues : qtyChange(value)
    \/ handleGenerate
    \/ copyToClipboard
    \/ CopyResolved
    \/ CopyRejected

Spec == Init /\ [][Next]_vars

-----------------------------------------------------------------------------
(* parseText on its own: every short text over ParseChars, and the texts   *)
(* above.                                                                  *)

ParseChars == {LF, CR, SP, COMMA, "http://", "x"}
ParseInputs == StringsUpTo(ParseChars, MaxTextLen) \cup Texts

Constructed ==
    /\ rawText = <<>>
    /\ items = <<>>
    /\ selectedIndex = 0 - 1
    /\ variant = NoVariant
    /\ qty = Num(1)
    /\ generated = <<>>
    /\ uploads = <<>>
    /\ copies = 0
    /\ status = "none"

InitParse ==
    /\ Constructed
    /\ event = "input"
    /\ arg \in ParseInputs
    /\ ret = <<>>

ParseStep ==
    /\ event = "input"
    /\ ret' = parseText(arg)
    /\ event' = "parsed"
    /\ UNCHANGED <<rawText, items, selectedIndex, variant, qty, generated,
                   uploads, copies, status, arg>>

NextParse == ParseStep

SpecParse == InitParse /\ [][NextParse]_vars

-----------------------------------------------------------------------------
(* parseText on the same rows joined by each newline convention.           *)

RowChoices == {Header, RowBoth, RowSetOnly, RowJunk, <<>>}
Newlines == {<<LF>>, <<CR, LF>>, <<CR>>}

InitNewline ==
    /\ Constructed
    /\ event = "input"
    /\ arg \in StringsUpTo(RowChoices, MaxRows) \X Newlines
    /\ ret = <<>>

ParseJoined ==
    /\ event = "input"
    /\ ret' = parseText(Join(arg[1], arg[2]))
    /\ event' = "parsed"
    /\ UNCHANGED <<rawText, items, selectedIndex, variant, qty, generated,
                   uploads, copies, status, arg>>

NextNewline == ParseJoined

SpecNewline == InitNewline /\ [][NextNewline]_vars

-----------------------------------------------------------------------------
(* buildBuyNowLink on its own: a prefix followed by every short path.      *)

PathChars == {SLASH, SP, "products", "Products", "6890"}
UrlPrefixes == { <<"https://", "www.popmart.com">>, <<"HTTP://", "www.popmart.com">>,
                 <<"https://">>, <<>> }
UrlInputs == {pre \o p : pre \in UrlPrefixes, p \in StringsUpTo(PathChars, MaxUrlLen)}
SkuInputs == { <<"10528">>, <<"10529">> }
CountInputs == {Num(1), Num(3)}

InitLink ==
    /\ Constructed
    /\ event = "input"
    /\ arg \in [productUrl : UrlInputs, skuId : SkuInputs, count : CountInputs]
    /\ ret = Return(<<>>)

LinkStep ==
    /\ event = "input"
    /\ ret' = buildBuyNowLink(arg.productUrl, arg.skuId, arg.count)
    /\ event' = "built"
    /\ UNCHANGED <<rawText, items, selectedIndex, variant, qty, generated,
                   uploads, copies, status, arg>>

NextLink == LinkStep

SpecLink == InitLink /\ [][NextLink]_vars

-----------------------------------------------------------------------------
(* What the claims speak of, stated without the code's loops.              *)

\* The pieces of s between the occurrences of token c, in order.
Pieces(s, c) ==
    LET P == {0} \cup {i \in 1..Len(s) : s[i] = c} \cup {Len(s) + 1}
        Nth(k) == CHOOSE x \in P : Cardinality({y \in P : y < x}) = k - 1
    IN [k \in 1..(Cardinality(P) - 1) |-> SubSeq(s, Nth(k) + 1, Nth(k + 1) - 1)]

\* s without the white space around it.
Strip(s) ==
    LET N == {i \in 1..Len(s) : s[i] \notin {SP, CR, LF}}
    IN IF N = {} THEN <<>>
       ELSE SubSeq(s, CHOOSE i \in N : \A j \in N : i <= j,
                      CHOOSE i \in N : \A j \in N : j <= i)

StripAll(ss) == [k \in 1..Len(ss) |-> Strip(ss[k])]

NonBlankLines(text) == SelectSeq(StripAll(Pieces(text, LF)), LAMBDA l : l # <<>>)

\* The non-blank lines after the first non-blank line.
DataLines(text) ==
    IF NonBlankLines(text) = <<>> THEN <<>> ELSE Tail(NonBlankLines(text))

Fields(line) == StripAll(Pieces(line, COMMA))

HttpPrefixes == {"http://", "https://", "HTTP://", "HTTPS://"}

WellFormedLine(line) ==
    /\ Len(Fields(line)) >= 2
    /\ Fields(line)[2] # <<>>
    /\ Fields(line)[2][1] \in HttpPrefixes

SkuField(F, k) ==
    IF k > Len(F) THEN null
    ELSE LET s == SelectSeq(F[k], LAMBDA t : t \notin {SP, CR, LF})
         IN IF s \in {<<>>, <<"null">>, <<"NULL">>, <<"Null">>} THEN null ELSE s

EntryOfLine(line) ==
    [name |-> Fields(line)[1], url |-> Fields(line)[2],
     skuSingle |-> SkuField(Fields(line), 3), skuSet |-> SkuField(Fields(line), 4)]

KeptLines(text) == SelectSeq(DataLines(text), WellFormedLine)

\* C6: parseText returns, in file order, one entry for each data line (the
\* non-blank lines after the first non-blank line) that has at least two
\* comma-separated fields and whose second field starts with http:// or
\* https:// in any case, and nothing else; so a header with no data lines
\* gives the empty sequence and a malformed line is dropped alone.
C6_ParseKeepsWellFormedLines ==
    event = "parsed" =>
        ret = [k \in 1..Len(KeptLines(arg)) |-> EntryOfLine(KeptLines(arg)[k])]

\* A malformed data line was dropped and the line after it was kept.
C6_Witness ==
    /\ event = "parsed"
    /\ Len(DataLines(arg)) = 2
    /\ ~WellFormedLine(DataLines(arg)[1])
    /\ Len(ret) = 1

\* C7: the same rows joined by LF, by CRLF or by a lone CR parse to the
\* same entries.
C7_AnyNewlineConvention ==
    event = "parsed" => \A sep \in Newlines : ret = parseText(Join(arg[1], sep))

\* The non-empty segments of a URL's path.
Segments(pathname) == SelectSeq(Pieces(pathname, SLASH), LAMBDA x : x # <<>>)

ProductsAt(segs) ==
    {i \in 1..Len(segs) : segs[i] \in {<<"products">>, <<"Products">>, <<"PRODUCTS">>}}

FirstOf(P) == CHOOSE i \in P : \A j \in P : i <= j

\* C5: a string that is no well-formed absolute URL fails with InvalidUrl;
\* a URL fails with MissingProductId exactly when no segment follows the
\* first segment of its path that equals "products" in any case; otherwise
\* the link has that following segment as spuId, the given skuId and
\* count, and the lower-cased last segment as spuTitle.
C5_BuildLink ==
    event = "built" =>
        LET u == NewURL(arg.productUrl)
            segs == Segments(u.pathname)
            P == ProductsAt(segs)
        IN IF ~u.ok THEN ret = Throw(ErrInvalidUrl)
           ELSE IF P = {} \/ FirstOf(P) = Len(segs) THEN ret = Throw(ErrMissingSpuId)
           ELSE ret = Return(<<LinkBase, "spuId=">> \o Encode(segs[FirstOf(P) + 1])
                             \o <<"&skuId=">> \o Encode(arg.skuId)
                             \o <<"&count=", NumToString(arg.count)>>
                             \o <<"&spuTitle=">> \o Encode(toLowerCase(segs[Len(segs)])))

\* A link was built for a path that ends at /Products/{id}.
C5_Witness ==
    /\ event = "built"
    /\ ret.ok
    /\ Segments(NewURL(arg.productUrl).pathname) = << <<"Products">>, <<"6890">> >>

-----------------------------------------------------------------------------
(* The claims about the form.                                              *)

Chosen == selectedIndex \in 0..(Len(items) - 1)

FirstSku(it) ==
    IF it.skuSingle # null THEN "single" ELSE IF it.skuSet # null THEN "set" ELSE NoVariant

MaxFor(v) == IF v = "single" THEN MaxSingle ELSE IF v = "set" THEN MaxSet ELSE MaxNone

IsLink(g) == g # <<>> /\ Head(g) # ErrPrefix

\* C1: after the entry list is replaced (initial load, handleLoad, a file
\* read in), the chosen index is 0 for a non-empty list and -1 for the
\* empty one, the variant is the first entry's default (none for the empty
\* list) and the quantity is 1.
C1_SelectionResetOnReplace ==
    event \in {"initialLoad", "handleLoad", "uploadResolved"} =>
        /\ selectedIndex = IF items # <<>> THEN 0 ELSE 0 - 1
        /\ variant = IF items # <<>> THEN FirstSku(items[1]) ELSE NoVariant
        /\ qty = Num(1)

\* What Generate must display in a state, by the precedence of the claim.
ExpectedOutcome(its, idx, v, q) ==
    IF idx \notin 0..(Len(its) - 1) THEN <<ErrPrefix, ErrNoEntry>>
    ELSE IF v \notin Variants THEN <<ErrPrefix, ErrNoVariant>>
    ELSE IF (IF v = "single" THEN its[idx + 1].skuSingle ELSE its[idx + 1].skuSet) = null
         THEN <<ErrPrefix, ErrMissingSku>>
    ELSE LET sku == IF v = "single" THEN its[idx + 1].skuSingle ELSE its[idx + 1].skuSet
             r == buildBuyNowLink(its[idx + 1].url, sku, clampQty(q, MaxFor(v)))
         IN IF r.ok THEN r.val ELSE <<ErrPrefix>> \o r.val

\* C2: Generate displays NoEntrySelected if no entry is chosen, else
\* NoVariantSelected if no variant is chosen, else MissingSku if the entry
\* has no SKU for the variant, else what the Link Builder gives for the
\* entry's URL, that SKU and the clamped quantity; a failure is displayed
\* behind the error prefix; entries, chosen index and variant stay as
\* they were.
C2_GeneratePrecedence ==
    [][event' = "handleGenerate" =>
          /\ generated' = ExpectedOutcome(items, selectedIndex, variant, qty)
          /\ UNCHANGED <<items, selectedIndex, variant>>]_vars

\* Generate got past its three checks and displayed the Link Builder's error.
C2_Witness ==
    /\ event = "handleGenerate"
    /\ generated = <<ErrPrefix, ErrMissingSpuId>>

\* C3: the stored quantity is an integer from 1 to the maximum of the
\* variant (28 single, 2 set, 1 none), whatever was typed.
C3_QuantityInRange == ~qty.nan /\ qty.val \in 1..MaxFor(variant)

\* C4: choosing an entry sets the variant to single if the entry has a
\* single SKU, else to set if it has a set SKU, else to none, and the
\* quantity to 1.
C4_SelectResets ==
    event = "selectProduct" /\ selectedIndex >= 0 =>
        /\ variant = FirstSku(items[selectedIndex + 1])
        /\ qty = Num(1)

\* An entry without single SKU and with a set SKU was chosen: variant set.
C4_Witness ==
    /\ event = "selectProduct"
    /\ selectedIndex = 1
    /\ items[2].skuSingle = null
    /\ items[2].skuSet # null
    /\ variant = "set"

AsyncEnded == {"uploadResolved", "uploadRejected", "copyResolved", "copyRejected"}

\* C8: the end of a clipboard write or of a file read changes none of raw
\* text, entry list, chosen entry, variant, quantity and outcome.
C8_CompletionsLeaveState ==
    [][event' \in AsyncEnded => UNCHANGED ui]_vars

\* C8 as amended: the end of a clipboard write, and a file read that fails,
\* change none of that state; the state changes only in a user's action,
\* in the mount effect or when a file read completes.
C8_OnlyFileReadCompletionLoads ==
    [][/\ event' \in {"copyResolved", "copyRejected", "uploadRejected"}
          => UNCHANGED ui /\ copies' + Len(uploads') = copies + Len(uploads) - 1
       /\ ui' # ui
          => event' \in {"initialLoad", "setRawText", "handleLoad", "selectProduct",
                         "handleVariantChange", "qtyChange", "handleGenerate",
                         "uploadResolved"}]_vars

\* A clipboard write ended after the user had cleared the outcome it copied.
C8_Witness ==
    /\ event = "copyResolved"
    /\ status = "copied"
    /\ generated = <<>>
    /\ items # <<>>

\* C9: when an entry and a variant are chosen, the entry has a SKU for the
\* variant, and Generate never displays MissingSku.
C9_VariantHasSku ==
    /\ Chosen /\ variant \in Variants =>
         (IF variant = "single" THEN items[selectedIndex + 1].skuSingle
                                ELSE items[selectedIndex + 1].skuSet) # null
    /\ generated # <<ErrPrefix, ErrMissingSku>>

\* Generate ran on an entry that lacks the single SKU.
C9_Witness ==
    /\ event = "handleGenerate"
    /\ Chosen
    /\ items[selectedIndex + 1].skuSingle = null
    /\ variant = "set"
    /\ IsLink(generated)

\* C10: a displayed link is the link of the current entry, variant and
\* quantity.
C10_OutcomeNeverStale ==
    IsLink(generated) =>
        /\ Chosen
        /\ variant \in Variants
        /\ generated = ExpectedOutcome(items, selectedIndex, variant, qty)

====
